---- MODULE Spec2Model ----
(***************************************************************************)
(* A model of src/main.py: a Telegram bot that relays every non-command    *)
(* text message to a chat-completion endpoint and replies with the result. *)
(*                                                                         *)
(* Texts are sequences of one-character strings.  The process is one       *)
(* asyncio event loop: a coroutine runs until it awaits a Telegram call    *)
(* (send_action, reply_text); the completion call of get_ai_response is a  *)
(* synchronous call made inside a coroutine, so the loop's only thread     *)
(* stays in it until it returns.                                           *)
(***************************************************************************)
EXTENDS Naturals, Sequences, FiniteSets, Bags, TLC

\* The number of updates and dispatch-level errors the bot receives in a run.
MaxUpdates == 2

VARIABLES
    env,       \* the process environment after load_dotenv()
    stage,     \* position in the start-up sequence
    phase,     \* "starting" | "polling" | "terminated"
    config,    \* the module-level configuration values
    handlers,  \* the callbacks registered with the application
    log,       \* the error-level messages logged so far
    tasks,     \* the bag of handler invocations (one per update or error)
    received,  \* how many updates and errors were received
    exitCause  \* why the process terminated

vars == <<env, stage, phase, config, handlers, log, tasks, received, exitCause>>

----------------------------------------------------------------------------
(* Texts                                                                   *)

WS == " "

\* str.strip(): the text without its leading and trailing whitespace.
RECURSIVE LStrip(_)
LStrip(s) == IF s # <<>> /\ Head(s) = WS THEN LStrip(Tail(s)) ELSE s

RECURSIVE RStrip(_)
RStrip(s) ==
    IF s # <<>> /\ s[Len(s)] = WS THEN RStrip(SubSeq(s, 1, Len(s) - 1)) ELSE s

\* A variant that forgets the trailing whitespace (lstrip for strip).
StripLeftOnly(s) == LStrip(s)

Strip(s) == RStrip(LStrip(s))

FALLBACK == <<"Scuze, am intampinat o eroare. Incearca din nou.">>
APOLOGY == <<"A aparut o eroare. Te rog incearca din nou.">>
HelpText == <<"Cum sa folosesti acest bot", "/start", "/help", "/about">>
AboutText == <<"AI Telegram Bot", "Versiune: 1.0">>
WelcomeMessage(first_name) ==
    <<"Bun venit, ">> \o first_name \o <<"!", "/start", "/help", "/about">>
SystemPrompt(user_name) ==
    <<"Esti un asistent AI prietenos. Utilizatorul se numeste ">> \o user_name

\* str(e) of the exceptions the program can meet.
ErrText(err) == <<"Traceback: ", err>>

----------------------------------------------------------------------------
(* Configuration (module level, lines 21-37)                               *)

Unset == [set |-> FALSE, val |-> <<>>]
Val(s) == [set |-> TRUE, val |-> s]

\* `not v` for a value of os.getenv: None and "" are falsy.
Falsy(v) == ~v.set \/ v.val = <<>>

DigitVal ==
    "0" :> 0 @@ "1" :> 1 @@ "2" :> 2 @@ "3" :> 3 @@ "4" :> 4 @@
    "5" :> 5 @@ "6" :> 6 @@ "7" :> 7 @@ "8" :> 8 @@ "9" :> 9

\* int(s) for an unsigned decimal string: whether it parses, and its value.
IntParses(s) == s # <<>> /\ \A i \in 1..Len(s) : s[i] \in DOMAIN DigitVal

RECURSIVE IntValue(_)
IntValue(s) ==
    IF s = <<>> THEN 0
    ELSE 10 * IntValue(SubSeq(s, 1, Len(s) - 1)) + DigitVal[s[Len(s)]]

\* float(s) for a string of the shape d.d: whether it parses, and its value
\* in tenths.
FloatParses(s) ==
    /\ Len(s) = 3
    /\ s[1] \in DOMAIN DigitVal /\ s[2] = "." /\ s[3] \in DOMAIN DigitVal

FloatTenths(s) == 10 * DigitVal[s[1]] + DigitVal[s[3]]

DefaultModel == <<"gpt-3.5-turbo">>
DefaultMaxTokens == 500
DefaultTemperatureTenths == 7

NoConfig ==
    [token |-> Unset, key |-> Unset, model |-> <<>>, max_tokens |-> 0,
     temperature |-> 0]

EnvTokens == {Unset, Val(<<>>), Val(<<"t", "o", "k">>)}
EnvKeys == {Unset, Val(<<>>), Val(<<"s", "k">>)}
EnvMaxTokens == {Unset, Val(<<"1", "0", "0">>), Val(<<"a", "b", "c">>)}
EnvTemperatures == {Unset, Val(<<"h", "o", "t">>)}

Envs ==
    [token : EnvTokens, key : EnvKeys, max_tokens : EnvMaxTokens,
     temperature : EnvTemperatures]

----------------------------------------------------------------------------
(* Updates and handler invocations                                         *)

Users == {[chat |-> 1, first_name |-> <<"Maria">>],
          [chat |-> 2, first_name |-> <<"Ion">>]}
Texts == {<<"Ce faci?">>, <<"Hello">>}

\* What the completion endpoint can answer: generated content, a response
\* whose content is None, a response with no choices, or an error.
Contents == {<<"a">>, <<WS, "a", WS>>, <<WS>>}
Outcomes ==
    {[kind |-> "content", text |-> c] : c \in Contents}
    \cup {[kind |-> k, text |-> <<>>] :
            k \in {"null_content", "no_choices", "api_error"}}

NoOutcome == [kind |-> "none", text |-> <<>>]
NoRequest ==
    [model |-> <<>>, system |-> <<>>, user |-> <<>>, max_tokens |-> 0,
     temperature |-> 0]

NewTask(kind, user, text) ==
    [kind |-> kind, chat |-> user.chat, first_name |-> user.first_name,
     text |-> text, pc |-> "start", hung |-> FALSE, typing |-> FALSE,
     calls |-> 0, req |-> NoRequest, resp |-> NoOutcome, out |-> <<>>,
     err |-> "", sent |-> <<>>, afterError |-> FALSE]

NoUser == [chat |-> 0, first_name |-> <<>>]

Running == BagToSet(tasks)

Replace(t, u) == (tasks (-) SetToBag({t})) (+) SetToBag({u})

\* The event loop's thread is inside a synchronous completion call.
LoopBusy == \E t \in Running : t.pc = "in_call"

----------------------------------------------------------------------------
Init ==
    /\ env \in Envs
    /\ stage = "load"
    /\ phase = "starting"
    /\ config = NoConfig
    /\ handlers = {}
    /\ log = {}
    /\ tasks = EmptyBag
    /\ received = 0
    /\ exitCause = "none"


----------------------------------------------------------------------------
(* Start-up                                                                *)

\* Lines 21-25: the environment is read; int() and float() raise ValueError
\* at module level on a value that does not parse, which ends the process
\* with a traceback and without a logger call.
LoadConfig ==
    /\ phase = "starting" /\ stage = "load"
    /\ IF /\ env.max_tokens.set => IntParses(env.max_tokens.val)
          /\ env.temperature.set => FloatParses(env.temperature.val)
       THEN /\ config' =
                 [token |-> env.token, key |-> env.key, model |-> DefaultModel,
                  max_tokens |->
                      IF env.max_tokens.set THEN IntValue(env.max_tokens.val)
                      ELSE DefaultMaxTokens,
                  temperature |->
                      IF env.temperature.set
                      THEN FloatTenths(env.temperature.val)
                      ELSE DefaultTemperatureTenths]
            /\ stage' = "check"
            /\ UNCHANGED <<phase, exitCause>>
       ELSE /\ phase' = "terminated"
            /\ exitCause' = "ValueError"
            /\ UNCHANGED <<config, stage>>
    /\ UNCHANGED <<env, handlers, log, tasks, received>>

TokenMissing == "TELEGRAM_BOT_TOKEN nu este setat in .env"
KeyMissing == "OPENAI_API_KEY nu este setat in .env"

\* Lines 28-37: the two required values are checked in turn.
CheckConfig ==
    /\ phase = "starting" /\ stage = "check"
    /\ IF Falsy(config.token)
       THEN /\ log' = log \cup {TokenMissing}
            /\ phase' = "terminated"
            /\ exitCause' = "config"
            /\ UNCHANGED stage
       ELSE IF Falsy(config.key)
       THEN /\ log' = log \cup {KeyMissing}
            /\ phase' = "terminated"
            /\ exitCause' = "config"
            /\ UNCHANGED stage
       ELSE /\ stage' = "main"
            /\ UNCHANGED <<log, phase, exitCause>>
    /\ UNCHANGED <<env, config, handlers, tasks, received>>

\* Lines 162-181, called from main (line 194).
SetupBot ==
    /\ phase = "starting" /\ stage = "main"
    /\ handlers' = {"start_command", "help_command", "about_command",
                    "handle_message", "error_handler"}
    /\ stage' = "run"
    /\ UNCHANGED <<env, phase, config, log, tasks, received, exitCause>>

Critical == "Eroare critica"

\* Lines 200-202: initialize, start and start_polling either succeed or raise;
\* lines 212-213 log what they raise and the process ends.
StartPolling(ok) ==
    /\ phase = "starting" /\ stage = "run"
    /\ IF ok
       THEN /\ phase' = "polling"
            /\ UNCHANGED <<log, exitCause>>
       ELSE /\ phase' = "terminated"
            /\ log' = log \cup {Critical}
            /\ exitCause' = "startup_exception"
    /\ UNCHANGED <<env, stage, config, handlers, tasks, received>>

\* Lines 205-211: the process waits until it is interrupted; the handler
\* invocations in flight are dropped with it.
Interrupt ==
    /\ phase = "polling"
    /\ phase' = "terminated"
    /\ exitCause' = "interrupt"
    /\ tasks' = EmptyBag
    /\ UNCHANGED <<env, stage, config, handlers, log, received>>

----------------------------------------------------------------------------
(* Handlers                                                                *)

CanDispatch(handler) ==
    /\ phase = "polling"
    /\ ~LoopBusy
    /\ received < MaxUpdates
    /\ handler \in handlers

\* Whether the error handler has already dealt with an error that carried no
\* message (recorded in each later invocation, for the properties below).
ErrorSeen ==
    \E t \in Running : t.kind \in {"none", "no_message"} /\ t.pc = "edone"

Spawn(t) ==
    /\ tasks' = tasks (+) SetToBag({[t EXCEPT !.afterError = ErrorSeen]})
    /\ received' = received + 1
    /\ UNCHANGED <<env, stage, phase, config, handlers, log, exitCause>>

\* Lines 70-88, up to the await of reply_text.
StartCommand(user) ==
    /\ CanDispatch("start_command")
    /\ Spawn([NewTask("start", user, <<"/start">>) EXCEPT
                 !.pc = "reply_wait",
                 !.out = WelcomeMessage(user.first_name)])

\* Lines 90-112.
HelpCommand(user) ==
    /\ CanDispatch("help_command")
    /\ Spawn([NewTask("help", user, <<"/help">>) EXCEPT
                 !.pc = "reply_wait", !.out = HelpText])

\* Lines 114-134.
AboutCommand(user) ==
    /\ CanDispatch("about_command")
    /\ Spawn([NewTask("about", user, <<"/about">>) EXCEPT
                 !.pc = "reply_wait", !.out = AboutText])

\* Lines 136-144: handle_message up to the await of send_action.
HandleMessage(user, text) ==
    /\ CanDispatch("handle_message")
    /\ Spawn([NewTask("text", user, text) EXCEPT !.pc = "typing_wait"])

\* Lines 46-61: the request get_ai_response builds.
BuildRequest(user_message, user_name) ==
    [model |-> config.model, system |-> SystemPrompt(user_name),
     user |-> user_message, max_tokens |-> config.max_tokens,
     temperature |-> config.temperature]

\* A variant that calls the endpoint again after a failed call.
MaxAttemptsWithRetry == 1 + 1

\* Line 53: the completion endpoint is invoked once, with no retry loop.
MaxAttempts == 1

\* Lines 63-67: what get_ai_response does with the outcome of the call: the
\* stripped content, or, on any exception (an API error, choices[0] of an
\* empty list, .strip() of None), a logged error and the fallback string.
AiError == "Eroare AI"

ErrorOf(outcome) ==
    CASE outcome.kind = "api_error" -> "APIError"
      [] outcome.kind = "no_choices" -> "IndexError"
      [] outcome.kind = "null_content" -> "AttributeError"
      [] OTHER -> ""

\* A variant without the try/except: the exception reaches the caller.
GetAiResponseNoCatch(outcome) ==
    IF outcome.kind = "content"
    THEN [raised |-> FALSE, err |-> "", value |-> Strip(outcome.text),
          logs |-> {}]
    ELSE [raised |-> TRUE, err |-> ErrorOf(outcome), value |-> <<>>,
          logs |-> {}]

\* A variant whose except branch returns the text of the exception.
GetAiResponseLeak(outcome) ==
    IF outcome.kind = "content"
    THEN [raised |-> FALSE, err |-> "", value |-> Strip(outcome.text),
          logs |-> {}]
    ELSE [raised |-> FALSE, err |-> "", value |-> ErrText(ErrorOf(outcome)),
          logs |-> {AiError}]

GetAiResponse(outcome) ==
    IF outcome.kind = "content"
    THEN [raised |-> FALSE, err |-> "", value |-> Strip(outcome.text),
          logs |-> {}]
    ELSE [raised |-> FALSE, err |-> "", value |-> FALLBACK,
          logs |-> {AiError}]

\* Lines 144-147: send_action completes.  When it raises, the exception
\* leaves handle_message; otherwise the coroutine goes on into
\* get_ai_response and into the synchronous call of line 53, which may never
\* return.
TypingResult(t, ok, hangs) ==
    /\ phase = "polling" /\ ~LoopBusy
    /\ t.pc = "typing_wait"
    /\ IF ok
       THEN tasks' = Replace(t, [t EXCEPT
                !.typing = TRUE, !.pc = "in_call", !.hung = hangs,
                !.calls = @ + 1,
                !.req = BuildRequest(t.text, t.first_name)])
       ELSE /\ ~hangs
            /\ tasks' = Replace(t, [t EXCEPT
                    !.pc = "raised", !.err = "NetworkError"])
    /\ UNCHANGED <<env, stage, phase, config, handlers, log, received,
                   exitCause>>

\* Lines 53-67 and 150: the call returns or raises, get_ai_response returns,
\* and handle_message goes on to the await of reply_text.
CompletionReturn(t, outcome) ==
    /\ phase = "polling"
    /\ t.pc = "in_call" /\ ~t.hung
    /\ LET r == GetAiResponse(outcome) IN
       IF outcome.kind # "content" /\ t.calls < MaxAttempts
       THEN /\ tasks' = Replace(t, [t EXCEPT !.calls = @ + 1])
            /\ UNCHANGED log
       ELSE IF r.raised
       THEN /\ tasks' = Replace(t, [t EXCEPT
                    !.pc = "raised", !.err = r.err, !.resp = outcome])
            /\ log' = log \cup r.logs
       ELSE /\ tasks' = Replace(t, [t EXCEPT
                    !.pc = "reply_wait", !.resp = outcome, !.out = r.value])
            /\ log' = log \cup r.logs
    /\ UNCHANGED <<env, stage, phase, config, handlers, received, exitCause>>

HandlerOf(kind) ==
    CASE kind = "start" -> "start_command"
      [] kind = "help" -> "help_command"
      [] kind = "about" -> "about_command"
      [] OTHER -> "handle_message"

\* A variant that replies to one fixed chat instead of the update's own.
MessageChatFixed(t) == 1

\* The chat of update.message, to which reply_text replies.
MessageChat(t) == t.chat

\* Lines 88, 112, 134, 150: reply_text completes.  Telegram refuses an empty
\* text, so an empty reply can only raise.
ReplyResult(t, ok) ==
    /\ phase = "polling" /\ ~LoopBusy
    /\ t.pc = "reply_wait"
    /\ IF ok
       THEN /\ t.out # <<>>
            /\ tasks' = Replace(t, [t EXCEPT
                    !.pc = "done",
                    !.sent = Append(@, [chat |-> MessageChat(t),
                                        text |-> t.out,
                                        by |-> HandlerOf(t.kind)])])
       ELSE tasks' = Replace(t, [t EXCEPT
                !.pc = "raised",
                !.err = IF t.out = <<>> THEN "BadRequest" ELSE "NetworkError",
                !.out = <<>>, !.resp = NoOutcome])
    /\ UNCHANGED <<env, stage, phase, config, handlers, log, received,
                   exitCause>>

----------------------------------------------------------------------------
(* Error handling                                                          *)

\* A variant that tests `update` alone.
HasMessageContextUpdateOnly(t) == t.kind # "none"

\* Line 156: `update and update.effective_message`.
HasMessageContext(t) == t.kind # "none" /\ t.kind # "no_message"

ErrorLogged == "Eroare"

\* An error of the polling loop itself, or of an update that carries no
\* message, reaches the registered error handler (line 179).
DispatchError(kind) ==
    /\ CanDispatch("error_handler")
    /\ Spawn([NewTask(kind, NoUser, <<>>) EXCEPT
                 !.pc = "raised", !.err = "NetworkError"])

\* Lines 152-159, up to the await of reply_text.
ErrorHandler(t) ==
    /\ phase = "polling" /\ ~LoopBusy
    /\ "error_handler" \in handlers
    /\ t.pc = "raised"
    /\ log' = log \cup {ErrorLogged}
    /\ tasks' = Replace(t, [t EXCEPT
            !.pc = IF HasMessageContext(t) THEN "ereply_wait" ELSE "edone"])
    /\ UNCHANGED <<env, stage, phase, config, handlers, received, exitCause>>

\* Lines 157-159: reply_text completes; when it raises, the exception leaves
\* error_handler, and the dispatcher goes on.
ErrorReplyResult(t, ok) ==
    /\ phase = "polling" /\ ~LoopBusy
    /\ t.pc = "ereply_wait"
    /\ IF ok
       THEN tasks' = Replace(t, [t EXCEPT
                !.pc = "edone",
                !.sent = Append(@, [chat |-> MessageChat(t),
                                    text |-> APOLOGY,
                                    by |-> "error_handler"])])
       ELSE tasks' = Replace(t, [t EXCEPT !.pc = "eraised"])
    /\ UNCHANGED <<env, stage, phase, config, handlers, log, received,
                   exitCause>>

----------------------------------------------------------------------------
Next ==
    \/ LoadConfig
    \/ CheckConfig
    \/ SetupBot
    \/ \E ok \in BOOLEAN : StartPolling(ok)
    \/ Interrupt
    \/ \E u \in Users : StartCommand(u)
    \/ \E u \in Users : HelpCommand(u)
    \/ \E u \in Users : AboutCommand(u)
    \/ \E u \in Users, x \in Texts : HandleMessage(u, x)
    \/ \E k \in {"none", "no_message"} : DispatchError(k)
    \/ \E t \in Running, ok \in BOOLEAN, hangs \in BOOLEAN :
           TypingResult(t, ok, hangs)
    \/ \E t \in Running, o \in Outcomes : CompletionReturn(t, o)
    \/ \E t \in Running, ok \in BOOLEAN : ReplyResult(t, ok)
    \/ \E t \in Running : ErrorHandler(t)
    \/ \E t \in Running, ok \in BOOLEAN : ErrorReplyResult(t, ok)

Spec == Init /\ [][Next]_vars


----------------------------------------------------------------------------
(* Properties                                                              *)

Range(f) == {f[i] : i \in DOMAIN f}

RepliesBy(t, who) == {r \in Range(t.sent) : r.by = who}

\* r is T without a run of whitespace at each end, and has none at its ends.
IsStripOf(r, T) ==
    /\ \E i \in 0..Len(T), j \in 0..Len(T) :
          /\ i + j <= Len(T)
          /\ r = SubSeq(T, i + 1, Len(T) - j)
          /\ \A k \in 1..i : T[k] = WS
          /\ \A k \in (Len(T) - j + 1)..Len(T) : T[k] = WS
    /\ r # <<>> => r[1] # WS /\ r[Len(r)] # WS

Finished(t) == t.pc \in {"done", "raised", "ereply_wait", "edone", "eraised"}

Suspended(t) == t.pc \in {"typing_wait", "reply_wait", "raised", "ereply_wait"}

CompletionErrors == {"APIError", "IndexError", "AttributeError"}

\* The steps of one invocation that is in flight.
Step(t) ==
    \/ \E ok \in BOOLEAN, hangs \in BOOLEAN : TypingResult(t, ok, hangs)
    \/ \E o \in Outcomes : CompletionReturn(t, o)
    \/ \E ok \in BOOLEAN : ReplyResult(t, ok)
    \/ ErrorHandler(t)
    \/ \E ok \in BOOLEAN : ErrorReplyResult(t, ok)


\* C1: every text message ends with exactly one reply sent by handle_message,
\* a non-empty text that is the generated text or the fallback, and with no
\* exception leaving handle_message.
C1_ExactlyOneReply ==
    \A t \in Running :
        t.kind = "text" /\ Finished(t) =>
            /\ t.err = ""
            /\ Len(t.sent) = 1
            /\ \A r \in Range(t.sent) :
                  /\ r.by = "handle_message"
                  /\ r.chat = t.chat
                  /\ r.text # <<>>
                  /\ r.text = FALLBACK \/ t.resp.kind = "content"

C3_MissingConfigIsLogged ==
    Falsy(env.token) \/ Falsy(env.key) =>
        /\ phase # "polling" /\ handlers = {} /\ received = 0
        /\ phase = "terminated" =>
              \/ Falsy(env.token) /\ TokenMissing \in log
              \/ Falsy(env.key) /\ KeyMissing \in log

\* C4: while one handle_message invocation waits on a completion call that
\* never returns, every other invocation that is suspended at an await can
\* still take its next step, and a new update can still be dispatched.
C4_HungCallStallsOnlyItsHandler ==
    \A t \in Running :
        t.pc = "in_call" /\ t.hung =>
            /\ \A u \in Running : Suspended(u) => ENABLED Step(u)
            /\ received < MaxUpdates =>
                  ENABLED (\E usr \in Users : HelpCommand(usr))

\* C5: error_handler never raises, whatever update it is given and whatever
\* its reply does, and it never takes the process out of polling.
C5_ErrorHandlerNeverRaises ==
    \A t \in Running : t.pc # "eraised" /\ phase = "polling"

\* C6: an error with no message context is logged and answered with no reply
\* to any chat, the process stays in polling, and further updates can be
\* dispatched.
C6_NoContextLogsOnly ==
    \A t \in Running :
        t.kind \in {"none", "no_message"} =>
            /\ t.sent = <<>>
            /\ t.pc \in {"raised", "edone"}
            /\ t.pc = "edone" =>
                  /\ ErrorLogged \in log
                  /\ phase = "polling"
                  /\ ~LoopBusy /\ received < MaxUpdates =>
                        ENABLED (\E usr \in Users, x \in Texts :
                                     HandleMessage(usr, x))

C6_Witness ==
    \E t \in Running, u \in Running :
        /\ t.kind = "none" /\ t.pc = "edone" /\ t.sent = <<>>
        /\ u.kind = "text" /\ u.afterError /\ u.pc = "done"
        /\ Len(u.sent) = 1

\* C7 as stated: after a successful completion call the typing signal was
\* emitted first and the reply is exactly the text the endpoint returned.
C7_ReplyIsExactlyGenerated ==
    \A t \in Running :
        /\ t.calls > 0 => t.typing
        /\ \A r \in RepliesBy(t, "handle_message") :
              t.resp.kind = "content" => r.text = t.resp.text

\* C7 as amended: after a successful completion call the typing signal was
\* emitted first and the reply is the text the endpoint returned without
\* its leading and trailing whitespace.
C7_TypingThenStrippedReply ==
    \A t \in Running :
        /\ t.calls > 0 => t.typing
        /\ t.pc = "reply_wait" /\ t.resp.kind = "content" =>
              IsStripOf(t.out, t.resp.text)
        /\ \A r \in RepliesBy(t, "handle_message") :
              t.resp.kind = "content" => IsStripOf(r.text, t.resp.text)

C7_Witness ==
    \E t \in Running :
        /\ t.pc = "done" /\ t.typing /\ t.calls = 1
        /\ t.resp = [kind |-> "content", text |-> <<WS, "a", WS>>]
        /\ t.sent = <<[chat |-> t.chat, text |-> <<"a">>,
                       by |-> "handle_message"]>>

\* C8: a reply sent because of a failure is the fallback of get_ai_response
\* or the apology of error_handler, and no reply carries the text of an
\* error.
C8_FailureRepliesAreFixed ==
    \A t \in Running : \A r \in Range(t.sent) :
        /\ r.by = "error_handler" => r.text = APOLOGY
        /\ r.by = "handle_message" /\ t.resp.kind # "content" =>
              r.text = FALLBACK
        /\ \A e \in CompletionErrors \cup {"NetworkError", "BadRequest"} :
              Range(r.text) \cap Range(ErrText(e)) = {}

C8_Witness ==
    \E t \in Running, u \in Running :
        /\ t.resp.kind = "api_error"
        /\ t.sent = <<[chat |-> t.chat, text |-> FALLBACK,
                       by |-> "handle_message"]>>
        /\ u.err = "NetworkError"
        /\ u.sent = <<[chat |-> u.chat, text |-> APOLOGY,
                       by |-> "error_handler"]>>

\* C9: the completion endpoint is invoked at most once for a message; a
\* failed call gives the fallback string after that one call, and the
\* process is still polling.
C9_AtMostOneCompletionCall ==
    \A t \in Running :
        /\ t.calls <= 1
        /\ t.kind # "text" => t.calls = 0
        /\ t.pc \in {"reply_wait", "done"} /\ t.kind = "text"
           /\ t.resp.kind # "content" =>
              t.calls = 1 /\ t.out = FALLBACK /\ phase = "polling"

C9_Witness ==
    \E t \in Running :
        /\ t.resp.kind = "api_error" /\ t.calls = 1 /\ t.pc = "done"
        /\ t.sent = <<[chat |-> t.chat, text |-> FALLBACK,
                       by |-> "handle_message"]>>
        /\ phase = "polling"

\* C10: whatever the interleaving, a reply goes to the chat of its own update
\* and its text and request depend on that update alone; a step of one
\* invocation changes no other invocation and never the configuration.
ExpectedReply(t, by) ==
    CASE by = "error_handler" -> APOLOGY
      [] by = "start_command" ->
            <<"Bun venit, ">> \o t.first_name
                \o <<"!", "/start", "/help", "/about">>
      [] by = "help_command" -> HelpText
      [] by = "about_command" -> AboutText
      [] OTHER ->
            IF t.resp.kind = "content" THEN Strip(t.resp.text) ELSE FALLBACK

OwnData ==
    \A t \in Running :
        /\ \A r \in Range(t.sent) :
              r.chat = t.chat /\ r.text = ExpectedReply(t, r.by)
        /\ t.calls > 0 =>
              /\ t.req.user = t.text
              /\ t.req.system = SystemPrompt(t.first_name)
              /\ t.req.model = config.model
              /\ t.req.max_tokens = config.max_tokens

OneInvocationPerStep ==
    phase = "polling" /\ phase' = "polling" =>
        /\ config' = config /\ env' = env /\ handlers' = handlers
        /\ \/ tasks' = tasks
           \/ \E u \in BagToSet(tasks') : tasks' = tasks (+) SetToBag({u})
           \/ \E t \in Running, u \in BagToSet(tasks') :
                  tasks' = (tasks (-) SetToBag({t})) (+) SetToBag({u})

C10_HandlersAreIndependent == []OwnData /\ [][OneInvocationPerStep]_vars

C10_Witness ==
    \E t \in Running, u \in Running :
        /\ t.kind = "text" /\ u.kind = "text" /\ t.chat # u.chat
        /\ t.pc = "done" /\ t.sent[1].chat = t.chat
        /\ u.pc = "reply_wait"

====
